---- MODULE Spec2Model ----
(***************************************************************************)
(* A model of pysysp (synthetic stellar photometry):                       *)
(*   - StarSpectrum construction, _waverange, apmag and extinction         *)
(*   - BandPass construction, loadascii, setters, smooth and __call__      *)
(*   - the filter library scan _listfiles and add_filter                   *)
(*   - the Cardelli, Clayton & Mathis extinction law                       *)
(* Arrays are sequences of integers.  Wavelengths of spectra and bandpasses*)
(* are whole numbers of 1000 Angstrom; responses and fluxes are small      *)
(* integers; interpolated responses and integrals are exact rationals      *)
(* <<numerator, denominator>>.  An attribute that Python leaves None is    *)
(* the empty sequence, a set attribute a one-element sequence.             *)
(***************************************************************************)
EXTENDS Integers, Sequences, FiniteSets, TLC

VARIABLES star, band, ret, fs, listfilters, showfilters

vars == <<star, band, ret, fs, listfilters, showfilters>>

(* ------------------------------ bounds -------------------------------- *)
\* largest wavelength sample, in units of 1000 Angstrom
MaxW == 4
\* longest array read from a file
MaxLen == 3

(* ------------------------- optional attributes ------------------------ *)
None == <<>>
Some(v) == <<v>>
IsNone(o) == o = <<>>
Val(o) == o[1]

(* --------------------------- exact rationals -------------------------- *)
Abs(n) == IF n < 0 THEN -n ELSE n

RECURSIVE GCD(_, _)
GCD(a, b) == IF b = 0 THEN a ELSE GCD(b, a % b)

Rat(n, d) ==
    LET g == GCD(Abs(n), Abs(d))
        s == IF d < 0 THEN -1 ELSE 1
    IN  <<(s * n) \div g, (s * d) \div g>>

RInt(n) == <<n, 1>>
RAdd(p, q) == Rat(p[1] * q[2] + q[1] * p[2], p[2] * q[2])
RMul(p, q) == Rat(p[1] * q[1], p[2] * q[2])
RSign(p) == IF p[1] > 0 THEN 1 ELSE IF p[1] < 0 THEN -1 ELSE 0

(* ------------------------------ numpy --------------------------------- *)
RECURSIVE SeqMax(_)
SeqMax(s) ==
    IF Len(s) = 1 THEN s[1]
    ELSE LET m == SeqMax(Tail(s)) IN IF s[1] > m THEN s[1] ELSE m

RECURSIVE SeqMin(_)
SeqMin(s) ==
    IF Len(s) = 1 THEN s[1]
    ELSE LET m == SeqMin(Tail(s)) IN IF s[1] < m THEN s[1] ELSE m

\* Where with the ends of the range left out
RECURSIVE WhereOpen(_, _, _)
WhereOpen(ws, lo, hi) ==
    IF ws = <<>> THEN <<>>
    ELSE LET n == Len(ws)
             rest == WhereOpen(SubSeq(ws, 1, n - 1), lo, hi)
         IN  IF ws[n] < hi /\ ws[n] > lo THEN Append(rest, n) ELSE rest

\* np.where(mask): the indices, ascending, at which the mask holds
RECURSIVE Where(_, _, _)
Where(ws, lo, hi) ==
    IF ws = <<>> THEN <<>>
    ELSE LET n == Len(ws)
             rest == Where(SubSeq(ws, 1, n - 1), lo, hi)
         IN  IF ws[n] <= hi /\ ws[n] >= lo THEN Append(rest, n) ELSE rest

\* a[r]: fancy indexing by an index array
Take(a, r) == [i \in 1..Len(r) |-> a[r[i]]]

\* np.trapz(y, x=x) with rational y and integer x; 0 for fewer than 2 samples
RECURSIVE trapz(_, _)
trapz(y, x) ==
    IF Len(x) < 2 THEN RInt(0)
    ELSE LET n == Len(x)
             last == RMul(Rat(x[n] - x[n - 1], 2), RAdd(y[n], y[n - 1]))
         IN  RAdd(trapz(SubSeq(y, 1, n - 1), SubSeq(x, 1, n - 1)), last)

(* ------------------------------ files --------------------------------- *)
\* What np.loadtxt reads: a one-column file is a 1-D array (v), a two-column
\* file a 2-D array with columns w and v.
Data1(v) == [cols |-> 1, w |-> <<>>, v |-> v]
Data2(w, v) == [cols |-> 2, w |-> w, v |-> v]

\* A file is its place (directory, base name, extension) and its contents;
\* contents None: no such file.
File(dir, base, ext, data) == [dir |-> dir, base |-> base, ext |-> ext, data |-> data]

\* _file_exists(name)
file_exists(f) == ~IsNone(f.data)

(* --------------------- scipy.interpolate.interp1d --------------------- *)
SmoothKinds == {"linear", "nearest", "zero", "slinear", "quadratic", "cubic"}

\* a spline of order k needs k + 1 samples
MinPoints(kind) ==
    CASE kind = "quadratic" -> 3
      [] kind = "cubic" -> 4
      [] OTHER -> 2

\* index i of the interval x[i] <= w < x[i+1] (the last interval closed)
Interval(x, w) ==
    IF w = x[Len(x)] THEN Len(x) - 1
    ELSE CHOOSE i \in 1..(Len(x) - 1) : x[i] <= w /\ w < x[i + 1]

\* value of the interpolant inside its domain
InDomain(ip, w) ==
    LET x == ip.x
        y == ip.y
        i == Interval(x, w)
    IN  CASE ip.kind = "zero" ->
               IF w = x[Len(x)] THEN RInt(y[Len(x)]) ELSE RInt(y[i])
          [] ip.kind = "nearest" ->
               \* half-way between two samples rounds down
               IF 2 * w <= x[i] + x[i + 1] THEN RInt(y[i]) ELSE RInt(y[i + 1])
          [] OTHER ->
               \* linear and slinear exactly; quadratic and cubic splines pass
               \* through the samples and are represented between them by the
               \* chord
               RAdd(RInt(y[i]), Rat((y[i + 1] - y[i]) * (w - x[i]), x[i + 1] - x[i]))

\* interp1d(...)(w) with bounds_error=False: fill_value outside [min x, max x]
Evaluate(ip, w) ==
    IF w < SeqMin(ip.x) \/ w > SeqMax(ip.x) THEN RInt(ip.fill) ELSE InDomain(ip, w)

(* ------------------------------ BandPass ------------------------------ *)
\* result of a method: the object afterwards, and how the call ended
Returned(obj) == [obj |-> obj, out |-> "return", exc |-> "", msg |-> ""]
Raised(obj, exc, msg) == [obj |-> obj, out |-> "raise", exc |-> exc, msg |-> msg]
Warned(obj, msg) == [obj |-> obj, out |-> "return", exc |-> "", msg |-> msg]

\* the attributes set by the first lines of BandPass.__init__
EmptyBand(smt) ==
    [wavelength |-> None, response |-> None, flux |-> None, name |-> None,
     interpolated_response |-> None, smt |-> smt]

\* BandPass.loadascii(filename)
BandLoadAscii(b, f) ==
    IF IsNone(f.data) THEN Raised(b, "IOError", "no such file")
    ELSE IF Val(f.data).cols # 2 THEN Raised(b, "IndexError", "too many indices")
    ELSE Returned([b EXCEPT !.name = Some(f.base),
                            !.wavelength = Some(Val(f.data).w),
                            !.response = Some(Val(f.data).v)])

FillValue == 0

\* BandPass.smooth(kind)
BandSmooth(b, kind) ==
    IF IsNone(b.response) THEN Raised(b, "AttributeError", "response")
    ELSE IF IsNone(b.wavelength) THEN Raised(b, "ValueError", "x is not an array")
    ELSE IF kind \notin SmoothKinds THEN Raised(b, "NotImplementedError", "kind")
    ELSE IF Len(Val(b.wavelength)) # Len(Val(b.response))
    THEN Raised(b, "ValueError", "x and y arrays must be equal in length")
    ELSE IF Len(Val(b.wavelength)) < MinPoints(kind)
    THEN Raised(b, "ValueError", "too few samples for the spline order")
    ELSE Returned([b EXCEPT !.interpolated_response =
                       Some([x |-> Val(b.wavelength), y |-> Val(b.response),
                             kind |-> kind, fill |-> FillValue])])

\* the two identical branches of __init__: load, then validate and smooth
LoadAndSmooth(b, f) ==
    LET l == BandLoadAscii(b, f)
    IN  IF l.out = "raise" THEN l
        ELSE IF b.smt \in SmoothKinds THEN BandSmooth(l.obj, b.smt)
        ELSE Raised(l.obj, "ValueError", "Unknown type of smoothing")

\* BandPass.__call__(w) for one wavelength
BandCall(b, w) ==
    IF IsNone(b.interpolated_response) THEN Raised(None, "TypeError", "not callable")
    ELSE Returned(Evaluate(Val(b.interpolated_response), w))

(* ------------------- fixed-point reals (extinction law) --------------- *)
\* A real number r of the extinction law is the integer r * 10^6, truncated.
Micro == 1000 * 1000
Sgn(n) == IF n < 0 THEN -1 ELSE 1

\* a * b / 10^6 without leaving 32 bits
FMul(a, b) ==
    LET x == Abs(a)
        y == Abs(b)
        x1 == x \div 1000
        x0 == x % 1000
        y1 == y \div 1000
        y0 == y % 1000
        cross == x1 * y0 + x0 * y1
    IN  Sgn(a) * Sgn(b) *
        (x1 * y1 + cross \div 1000 + ((cross % 1000) * 1000 + x0 * y0) \div Micro)

RECURSIVE Micro10(_)
Micro10(k) == IF k = 0 THEN 1 ELSE 10 * Micro10(k - 1)

\* digits more decimal digits of r / b, r < b
RECURSIVE LongDiv(_, _, _)
LongDiv(r, b, digits) ==
    IF digits = 0 THEN 0
    ELSE LET d == (r * 10) \div b
         IN  d * Micro10(digits - 1) + LongDiv((r * 10) % b, b, digits - 1)

\* a / b in fixed point, b # 0
FDiv(a, b) ==
    LET x == Abs(a)
        y == Abs(b)
    IN  Sgn(a) * Sgn(b) * ((x \div y) * Micro + LongDiv(x % y, y, 6))

RECURSIVE FPowInt(_, _)
FPowInt(x, n) == IF n = 0 THEN Micro ELSE FMul(x, FPowInt(x, n - 1))

\* sum of z^(2k+1) / (2k+1) for k = from .. upto
RECURSIVE AtanhSeries(_, _, _, _)
AtanhSeries(z, zpow, k, upto) ==
    IF k > upto THEN 0
    ELSE zpow \div (2 * k + 1) + AtanhSeries(z, FMul(zpow, FMul(z, z)), k + 1, upto)

\* natural logarithm, x > 0: 2 atanh((x - 1) / (x + 1))
FLn(x) ==
    LET z == FDiv(x - Micro, x + Micro) IN 2 * AtanhSeries(z, z, 0, 14)

\* sum of t^n / n! for n = from .. upto, term the n-th term
RECURSIVE ExpSeries(_, _, _, _)
ExpSeries(t, term, n, upto) ==
    IF n > upto THEN 0
    ELSE term + ExpSeries(t, FMul(term, t) \div (n + 1), n + 1, upto)

FExp(t) == ExpSeries(t, Micro, 0, 20)

\* x ** p for real p, x > 0
FPow(x, p) == FExp(FMul(p, FLn(x)))

(* ------------------------- extinction.cardelli ------------------------ *)
\* A wavelength given to the law is a rational <<p, q>> Angstrom, p, q > 0.
\* X = 1. / (w * 1.e-4), as an exact rational and in fixed point
XOf(w) == Rat(10000 * w[2], w[1])
XFix(w) == FDiv(XOf(w)[1] * Micro, XOf(w)[2] * Micro)

\* X < n / 10 and X >= n / 10, for the bounds 0.3, 1.1, 3.3, 5.9, 8. and 10.
XBelow(X, tenths) == 10 * X[1] < tenths * X[2]
XAtLeast(X, tenths) == ~XBelow(X, tenths)

\* the chain with X = 1.1 still taken by the infrared branch
RegionLate(X) ==
    IF XBelow(X, 3) THEN "too_long"
    ELSE IF XAtLeast(X, 3) /\ (XBelow(X, 11) \/ 10 * X[1] = 11 * X[2]) THEN "infrared"
    ELSE IF XAtLeast(X, 11) /\ XBelow(X, 33) THEN "optical"
    ELSE IF XAtLeast(X, 33) /\ XBelow(X, 80) THEN "uv"
    ELSE IF XAtLeast(X, 80) /\ XBelow(X, 100) THEN "far_uv"
    ELSE "too_short"

\* the branch of the if / elif chain that X takes
Region(X) ==
    IF XBelow(X, 3) THEN "too_long"
    ELSE IF XAtLeast(X, 3) /\ XBelow(X, 11) THEN "infrared"
    ELSE IF XAtLeast(X, 11) /\ XBelow(X, 33) THEN "optical"
    ELSE IF XAtLeast(X, 33) /\ XBelow(X, 80) THEN "uv"
    ELSE IF XAtLeast(X, 80) /\ XBelow(X, 100) THEN "far_uv"
    ELSE "too_short"

Regions == {"infrared", "optical", "uv", "far_uv"}

\* the coefficients <<a, b>> of each branch, X in fixed point
Infrared(X) ==
    <<FMul(574000, FPow(X, 1610000)), FMul(-527000, FPow(X, 1610000))>>

Optical(X) ==
    LET y == X - 1820000
        P(n) == FPowInt(y, n)
    IN  <<Micro + FMul(176990, y) - FMul(504470, P(2)) - FMul(24270, P(3))
            + FMul(720850, P(4)) + FMul(19790, P(5)) - FMul(775300, P(6))
            + FMul(329990, P(7)),
          FMul(1413380, y) + FMul(2283050, P(2)) + FMul(1072330, P(3))
            - FMul(5384340, P(4)) - FMul(622510, P(5)) + FMul(5302600, P(6))
            - FMul(2090020, P(7))>>

\* the correction terms of the branch X >= 5.9
FaTerm(X) ==
    FMul(-44730, FPowInt(X - 5900000, 2)) - FMul(9779, FPowInt(X - 5900000, 3))

FbTerm(X) ==
    FMul(213000, FPowInt(X - 5900000, 2)) - FMul(120700, FPowInt(X - 5900000, 3))

\* the UV branch; corrected: whether the X >= 5.9 terms are added
UV(X, corrected) ==
    LET Fa == IF corrected THEN FaTerm(X) ELSE 0
        Fb == IF corrected THEN FbTerm(X) ELSE 0
    IN  <<1752000 - FMul(316000, X)
            - FDiv(104000, FPowInt(X - 4670000, 2) + 341000) + Fa,
          -3090000 + FMul(1825000, X)
            + FDiv(1206000, FPowInt(X - 4620000, 2) + 263000) + Fb>>

FarUV(X) ==
    LET z == X - 8000000
    IN  <<-1073000 - FMul(628000, z) + FMul(137000, FPowInt(z, 2))
            - FMul(70000, FPowInt(z, 3)),
          13670000 + FMul(4257000, z) - FMul(420000, FPowInt(z, 2))
            + FMul(374000, FPowInt(z, 3))>>

Coefficients(region, X) ==
    CASE region = "infrared" -> Infrared(X)
      [] region = "optical" -> Optical(X)
      [] region = "uv" -> UV(X, X >= 5900000)
      [] region = "far_uv" -> FarUV(X)

\* ans.append(A * (a + b / Rv))
Extinction(ab, A, Rv) == FMul(A, ab[1] + FDiv(ab[2], Rv))

CardelliAt(w, A, Rv) == Extinction(Coefficients(Region(XOf(w)), XFix(w)), A, Rv)

\* cardelli(wavelength, A, Rv): the array, or the first wavelength's error
cardelli(wavelength, A, Rv) ==
    LET bad == {i \in 1..Len(wavelength) : Region(XOf(wavelength[i])) \notin Regions}
    IN  IF bad # {}
        THEN LET i == CHOOSE j \in bad : \A k \in bad : j <= k
             IN  Raised(None, "ValueError",
                        IF Region(XOf(wavelength[i])) = "too_long"
                        THEN "Law not defined for wavelength larger than"
                        ELSE "Law not defined for wavelength smaller than")
        ELSE Returned([i \in 1..Len(wavelength) |-> CardelliAt(wavelength[i], A, Rv)])

\* the registry of laws (extinction.extlaws)
extlaws == {"cardelli"}

(* ---------------------------- StarSpectrum ---------------------------- *)
\* the Vega reference arrays (module constants vegawavelength, vegaflux)
vegawavelength == <<2, 3, 5>>
vegaflux == <<2, 1, 1>>

\* speed of light in Angstrom/sec as <<mantissa, decimal exponent>>, and the
\* magnitude zero points in hundredths of a magnitude
c == <<299792458, 10>>
abzero == -4860
stzero == -2110

EmptyStar(file) == [wavelength |-> None, flux |-> None, file |-> file]

\* GeneralSpectrum.loadfits and loadascii
StarLoadFits(s, f) ==
    [s EXCEPT !.wavelength = Some(Val(f.data).w), !.flux = Some(Val(f.data).v)]

StarLoadAscii(s, f) ==
    IF Val(f.data).cols = 1 THEN [s EXCEPT !.flux = Some(Val(f.data).v)]
    ELSE [s EXCEPT !.wavelength = Some(Val(f.data).w), !.flux = Some(Val(f.data).v)]

\* StarSpectrum.__init__(file); file None is the empty sequence
StarInit(file) ==
    IF IsNone(file) THEN Returned(EmptyStar(file))
    ELSE IF file_exists(Val(file))
    THEN IF Val(file).ext \in {"fits", "FITS"}
         THEN Returned(StarLoadFits(EmptyStar(file), Val(file)))
         ELSE Returned(StarLoadAscii(EmptyStar(file), Val(file)))
    ELSE Warned(EmptyStar(file), "Could not find file - no spectrum loaded")

\* _waverange refusing a bandpass that reaches the spectrum's last sample
waverangeStrict(wb, ws) ==
    IF IsNone(wb) \/ IsNone(ws) THEN Raised(None, "TypeError", "None < number")
    ELSE IF SeqMin(Val(wb)) < SeqMin(Val(ws)) \/ SeqMax(Val(wb)) >= SeqMax(Val(ws))
    THEN Raised(None, "ValueError", "Bandpass and spectrum must completely overlap.")
    ELSE Returned(Where(Val(ws), SeqMin(Val(wb)), SeqMax(Val(wb))))

\* StarSpectrum._waverange(wb, ws), wb and ws optional arrays
waverange(wb, ws) ==
    IF IsNone(wb) \/ IsNone(ws) THEN Raised(None, "TypeError", "None < number")
    ELSE LET wbmax == SeqMax(Val(wb))
             wbmin == SeqMin(Val(wb))
             wsmax == SeqMax(Val(ws))
             wsmin == SeqMin(Val(ws))
         IN  IF wbmin < wsmin \/ wbmax > wsmax
             THEN Raised(None, "ValueError", "Bandpass and spectrum must completely overlap.")
             ELSE Returned(Where(Val(ws), wbmin, wbmax))

\* wr = self.wavelength[r]; fr = self.flux[r]
Selection(b, s) ==
    LET r == waverange(b.wavelength, s.wavelength)
    IN  IF r.out = "raise" THEN r
        ELSE IF IsNone(s.flux) THEN Raised(None, "TypeError", "NoneType is not subscriptable")
        ELSE IF \E i \in 1..Len(r.obj) : r.obj[i] > Len(Val(s.flux))
        THEN Raised(None, "IndexError", "index out of bounds")
        ELSE Returned([r |-> r.obj, wr |-> Take(Val(s.wavelength), r.obj),
                       fr |-> Take(Val(s.flux), r.obj)])

\* band(wr): the interpolated response on a grid
Response(b, wr) == [i \in 1..Len(wr) |-> Evaluate(Val(b.interpolated_response), wr[i])]

\* np.trapz(fr * band(wr) * wr, x=wr)
Weighted(b, fr, wr) ==
    trapz([i \in 1..Len(wr) |-> RMul(RInt(fr[i] * wr[i]), Response(b, wr)[i])], wr)

\* np.trapz(band(wr) * wr, x=wr) and np.trapz(band(wr) / wr, x=wr)
BandTimesW(b, wr) ==
    trapz([i \in 1..Len(wr) |-> RMul(RInt(wr[i]), Response(b, wr)[i])], wr)

BandOverW(b, wr) ==
    trapz([i \in 1..Len(wr) |-> RMul(Rat(1, wr[i]), Response(b, wr)[i])], wr)

\* IEEE class of np.log10(x) by the sign of x
LogClass(x) ==
    IF RSign(x) > 0 THEN "finite" ELSE IF RSign(x) = 0 THEN "-inf" ELSE "nan"

\* class of -2.5 * np.log10(num / den) + zero
RatioClass(num, den) ==
    IF RSign(den) = 0
    THEN (IF RSign(num) > 0 THEN "-inf" ELSE "nan")
    ELSE IF RSign(num) * RSign(den) > 0 THEN "finite"
    ELSE IF RSign(num) = 0 THEN "+inf" ELSE "nan"

\* class of -2.5 * np.log10(f) + 2.5 * np.log10(vega_f) + mzero
DifferenceClass(f, vega_f) ==
    LET a == LogClass(f)
        b == LogClass(vega_f)
    IN  IF a = "nan" \/ b = "nan" THEN "nan"
        ELSE IF a = "-inf" /\ b = "-inf" THEN "nan"
        ELSE IF a = "-inf" THEN "+inf"
        ELSE IF b = "-inf" THEN "-inf"
        ELSE "finite"

\* A magnitude: its IEEE class and, when finite, -2.5 log10(num / (den * scale))
\* + zero / 100.
Magnitude(class, num, den, scale, zero) ==
    [class |-> class, num |-> num, den |-> den, scale |-> scale, zero |-> zero]

\* One entry of the log of _waverange calls a method made
WaveCall(wb, ws) == [wb |-> wb, ws |-> ws, res |-> waverange(wb, ws)]

\* How apmag or extinction ended: the method result, the _waverange calls it
\* made, and the selection (r, wr, fr) it integrated over, if it got that far
Outcome(res, calls, sel) == [res |-> res, calls |-> calls, sel |-> sel]

NotCallable == Raised(None, "TypeError", "NoneType is not callable")

\* the 'Vega' branch integrating the reference over all of its samples
ApmagVegaWhole(s, b, sel, mzero) ==
    LET first == WaveCall(b.wavelength, s.wavelength)
        second == WaveCall(b.wavelength, Some(vegawavelength))
    IN  IF second.res.out = "raise" THEN Outcome(second.res, <<first, second>>, Some(sel))
        ELSE IF IsNone(b.interpolated_response)
        THEN Outcome(NotCallable, <<first, second>>, Some(sel))
        ELSE LET f == Weighted(b, sel.fr, sel.wr)
                 vega_f == Weighted(b, vegaflux, vegawavelength)
             IN  Outcome(Returned(Magnitude(DifferenceClass(f, vega_f), f, vega_f,
                                            <<1, 0>>, mzero)),
                         <<first, second>>, Some(sel))

\* the 'Vega' branch of apmag
ApmagVega(s, b, sel, mzero) ==
    LET first == WaveCall(b.wavelength, s.wavelength)
        second == WaveCall(b.wavelength, Some(vegawavelength))
        vegar == second.res
    IN  IF vegar.out = "raise" THEN Outcome(vegar, <<first, second>>, Some(sel))
        ELSE IF IsNone(b.interpolated_response)
        THEN Outcome(NotCallable, <<first, second>>, Some(sel))
        ELSE LET vegawr == Take(vegawavelength, vegar.obj)
                 vegafr == Take(vegaflux, vegar.obj)
                 f == Weighted(b, sel.fr, sel.wr)
                 vega_f == Weighted(b, vegafr, vegawr)
             IN  Outcome(Returned(Magnitude(DifferenceClass(f, vega_f), f, vega_f,
                                            <<1, 0>>, mzero)),
                         <<first, second>>, Some(sel))

\* apmag taking every name other than 'AB' and 'ST' for the default system
apmagDefault(s, b, mag, mzero) ==
    LET first == WaveCall(b.wavelength, s.wavelength)
        got == Selection(b, s)
    IN  IF got.out = "raise" THEN Outcome(got, <<first>>, None)
        ELSE ApmagVega(s, b, got.obj, mzero)

\* StarSpectrum.apmag(band, mag, mzero)
apmag(s, b, mag, mzero) ==
    LET first == WaveCall(b.wavelength, s.wavelength)
        got == Selection(b, s)
        sel == got.obj
    IN  IF got.out = "raise" THEN Outcome(got, <<first>>, None)
        ELSE IF mag = "AB"
        THEN IF IsNone(b.interpolated_response)
             THEN Outcome(NotCallable, <<first>>, Some(sel))
             ELSE LET num == Weighted(b, sel.fr, sel.wr)
                      den == BandOverW(b, sel.wr)
                  IN  Outcome(Returned(Magnitude(RatioClass(num, den), num, den, c, abzero)),
                              <<first>>, Some(sel))
        ELSE IF mag = "ST"
        THEN IF IsNone(b.interpolated_response)
             THEN Outcome(NotCallable, <<first>>, Some(sel))
             ELSE LET num == Weighted(b, sel.fr, sel.wr)
                      den == BandTimesW(b, sel.wr)
                  IN  Outcome(Returned(Magnitude(RatioClass(num, den), num, den,
                                                 <<1, 0>>, stzero)),
                              <<first>>, Some(sel))
        ELSE IF mag = "Vega" THEN ApmagVega(s, b, sel, mzero)
        ELSE Outcome(Raised(None, "ValueError",
                            "Magnitude system is not a valid choice, check input string"),
                     <<first>>, Some(sel))

\* the grid in Angstrom, as the law receives it
Angstrom(wr) == [i \in 1..Len(wr) |-> <<1000 * wr[i], 1>>]

\* StarSpectrum.extinction(band, law, A=A, Rv=Rv).  The value is
\* -2.5 log10(num / den) with den the band-weighted flux integral and num the
\* same integrand times 10 ** (-0.4 * A_lambda); it is kept as den and A_lambda.
\* For non-negative flux and response num is 0 exactly when den is.
extinction(s, b, law, A, Rv) ==
    LET first == WaveCall(b.wavelength, s.wavelength)
        got == Selection(b, s)
        sel == got.obj
    IN  IF got.out = "raise" THEN Outcome(got, <<first>>, None)
        ELSE IF law \in extlaws
        THEN IF IsNone(b.interpolated_response)
             THEN Outcome(NotCallable, <<first>>, Some(sel))
             ELSE LET Alambda == cardelli(Angstrom(sel.wr), A, Rv)
                      den == Weighted(b, sel.fr, sel.wr)
                  IN  IF Alambda.out = "raise" THEN Outcome(Alambda, <<first>>, Some(sel))
                      ELSE Outcome(Returned([class |-> IF RSign(den) = 0 THEN "nan" ELSE "finite",
                                             den |-> den, Alambda |-> Alambda.obj]),
                                   <<first>>, Some(sel))
        ELSE Outcome(Raised(None, "ValueError",
                            "Extinction law is not a valid choice, check input string"),
                     <<first>>, Some(sel))

(* --------------------------- filter library --------------------------- *)
\* The files of the package's filters directory after installation (the listing
\* of the package docstring); the curves stand for the shipped response files.
LibraryCurve(name) ==
    CASE name = "G" -> Data2(<<1, 2, 3, 4>>, <<1, 1, 1, 1>>)
      [] name = "B" -> Data2(<<1, 2, 3>>, <<0, 1, 0>>)
      [] name = "V" -> Data2(<<2, 3, 4>>, <<1, 1, 1>>)
      [] name = "R" -> Data2(<<3, 4>>, <<1, 0>>)
      [] name = "I" -> Data2(<<3, 4>>, <<0, 1>>)
      [] name = "U" -> Data2(<<1, 2>>, <<1, 0>>)

InstalledFilters ==
    {File("Gaia", "G", "dat", Some(LibraryCurve("G")))} \cup
    {File("Bessel", n, "dat", Some(LibraryCurve(n))) : n \in {"B", "I", "R", "U", "V"}}

\* the orders in which os.walk may visit the directories that hold files
WalkOrders(files) ==
    LET dirs == {f.dir : f \in files}
        n == Cardinality(dirs)
    IN  {o \in [1..n -> dirs] : \A i, j \in 1..n : o[i] = o[j] => i = j}

\* _listfiles(filterdir) on the registries lf (listfilters) and sf (showfilters),
\* visiting the directories in the given order; a later directory's file
\* replaces an earlier one's under the same key
RECURSIVE listfiles(_, _, _, _)
listfiles(files, order, lf, sf) ==
    IF order = <<>> THEN [listfilters |-> lf, showfilters |-> sf]
    ELSE LET root == Head(order)
             here == {f \in files : f.dir = root}
             keys == {f.base : f \in here}
             lf2 == [k \in DOMAIN lf \cup keys |->
                        IF k \in keys THEN CHOOSE f \in here : f.base = k ELSE lf[k]]
             sf2 == IF keys = {} THEN sf
                    ELSE [d \in DOMAIN sf \cup {root} |-> IF d = root THEN keys ELSE sf[d]]
         IN  listfiles(files, Tail(order), lf2, sf2)

EmptyRegistry == [k \in {} |-> {}]

\* add_filter(file_path, name, system); name and system optional
add_filter(files, lf, sf, file_path, name, system, order) ==
    LET same == [files |-> files, listfilters |-> lf, showfilters |-> sf]
    IN  IF IsNone(file_path.data)
        THEN [state |-> same, out |-> "raise", msg |-> "IOError"]
        ELSE IF Val(file_path.data).cols # 2
        THEN [state |-> same, out |-> "return",
              msg |-> "File must contain two columns (wavelength, filter response)"]
        ELSE LET nm == IF IsNone(name) THEN file_path.base ELSE Val(name)
                 sys == IF IsNone(system) THEN "Unknown_system" ELSE Val(system)
                 complete_path == File(sys, nm, "dat", file_path.data)
                 exists == \E f \in files : f.dir = sys /\ f.base = nm /\ f.ext = "dat"
             IN  IF ~exists
                 THEN LET files2 == files \cup {complete_path}
                          scan == listfiles(files2, order, lf, sf)
                      IN  [state |-> [files |-> files2,
                                      listfilters |-> scan.listfilters,
                                      showfilters |-> scan.showfilters],
                           out |-> "return", msg |-> "added to filter library"]
                 ELSE [state |-> same, out |-> "return",
                       msg |-> "could not be added to library because a filter with this name already exists."]

(* ------------------------- BandPass.__init__ -------------------------- *)
\* band is the argument: given or not, the string as a registry key, and the
\* file that string names as a path
BandArg(given, key, file) == [given |-> given, key |-> key, file |-> file]

\* __init__ whose second branch smooths without validating the kind
BandInitUnchecked(lf, arg, smt) ==
    LET b == EmptyBand(smt)
    IN  IF ~arg.given THEN Returned(b)
        ELSE IF arg.key \in DOMAIN lf THEN LoadAndSmooth(b, lf[arg.key])
        ELSE IF file_exists(arg.file)
        THEN LET l == BandLoadAscii(b, arg.file)
             IN  IF l.out = "return" /\ smt \in SmoothKinds THEN BandSmooth(l.obj, smt) ELSE l
        ELSE Warned(b, "Could not find filter or file")

BandInit(lf, arg, smt) ==
    LET b == EmptyBand(smt)
    IN  IF ~arg.given THEN Returned(b)
        ELSE IF arg.key \in DOMAIN lf THEN LoadAndSmooth(b, lf[arg.key])
        ELSE IF file_exists(arg.file) THEN LoadAndSmooth(b, arg.file)
        ELSE Warned(b, "Could not find filter or file")

\* GeneralSpectrum.setflux and setwavelength, as BandPass inherits them
SetFlux(o, flux) == [o EXCEPT !.flux = Some(flux)]
SetWavelength(o, w) == [o EXCEPT !.wavelength = Some(w)]

(* ------------------------------- inputs ------------------------------- *)
RECURSIVE SortedSeq(_)
SortedSeq(S) ==
    IF S = {} THEN <<>>
    ELSE LET m == CHOOSE x \in S : \A y \in S : x <= y
         IN  <<m>> \o SortedSeq(S \ {m})

\* wavelength arrays: strictly increasing, 2 to MaxLen samples out of 1..MaxW
Waves ==
    {SortedSeq(S) : S \in {T \in SUBSET (1..MaxW) :
                              Cardinality(T) >= 2 /\ Cardinality(T) <= MaxLen}}

\* response and flux samples
Responses == {0, 1}
Fluxes == {1, 2}

BandCurves == UNION {{Data2(w, r) : r \in [1..Len(w) -> Responses]} : w \in Waves}
StarCurves == UNION {{Data2(w, f) : f \in [1..Len(w) -> Fluxes]} : w \in Waves}

VegaFile == File(".", "alpha_lyr_stis_006", "fits", Some(Data2(vegawavelength, vegaflux)))

\* what StarSpectrum(...) is constructed from: nothing, a missing file, a
\* one-column text file, a two-column text file, the Vega FITS file
StarFiles ==
    {None, Some(File(".", "nofile", "txt", None)),
     Some(File(".", "flux", "txt", Some(Data1(<<1, 2>>)))), Some(VegaFile)} \cup
    {Some(File(".", "spectrum", "txt", Some(d))) : d \in StarCurves}

NoBand == BandArg(FALSE, "", File(".", "", "", None))
PathArg(f) == BandArg(TRUE, "./" \o f.base \o "." \o f.ext, f)
NameArg(n) == BandArg(TRUE, n, File(".", n, "", None))

PhotKinds == {"slinear", "nearest"}

Library == listfiles(InstalledFilters, CHOOSE o \in WalkOrders(InstalledFilters) : TRUE,
                     EmptyRegistry, EmptyRegistry)

(* ------------------------------- state -------------------------------- *)
\* ret is the last call: the operation, its arguments, how it ended (return or
\* raise, the exception, the message), the value returned, and for apmag and
\* extinction the _waverange calls made and the selection integrated over.
Ret(op, args, res, calls, sel) ==
    [op |-> op, args |-> args, out |-> res.out, exc |-> res.exc, msg |-> res.msg,
     val |-> res.obj, calls |-> calls, sel |-> sel]

NoCall == Ret("none", <<>>, Returned(None), <<>>, None)

LibraryUnchanged == UNCHANGED <<fs, listfilters, showfilters>>

InitLibrary ==
    /\ fs = InstalledFilters
    /\ listfilters = Library.listfilters
    /\ showfilters = Library.showfilters

(* ------------------- photometry: apmag, extinction -------------------- *)
MagSystems == {"AB", "ST", "Vega", "XYZ"}
ZeroPoints == {0, 3}
LawNames == {"cardelli", "foo"}

Init ==
    /\ InitLibrary
    /\ star \in {StarInit(f).obj : f \in StarFiles}
    /\ band \in {BandInit(Library.listfilters, NoBand, "slinear").obj} \cup
                {BandInit(Library.listfilters, PathArg(File(".", "band", "dat", Some(d))), k).obj :
                     d \in BandCurves, k \in PhotKinds}
    /\ ret = NoCall

Apmag ==
    \E mag \in MagSystems, mzero \in ZeroPoints :
        /\ mag # "Vega" => mzero = 0
        /\ LET o == apmag(star, band, mag, mzero)
           IN  ret' = Ret("apmag", [mag |-> mag, mzero |-> mzero], o.res, o.calls, o.sel)
        /\ UNCHANGED <<star, band>>
        /\ LibraryUnchanged

ExtinctionCall ==
    \E law \in LawNames, A \in {0, Micro} :
        /\ LET o == extinction(star, band, law, A, 3100000)
           IN  ret' = Ret("extinction", [law |-> law, A |-> A, Rv |-> 3100000],
                          o.res, o.calls, o.sel)
        /\ UNCHANGED <<star, band>>
        /\ LibraryUnchanged

Next == Apmag \/ ExtinctionCall

Spec == Init /\ [][Next]_vars

(* ----------------------- claims on the photometry --------------------- *)
Range(q) == {q[i] : i \in 1..Len(q)}
Lowest(q) == CHOOSE x \in Range(q) : \A y \in Range(q) : x <= y
Highest(q) == CHOOSE x \in Range(q) : \A y \in Range(q) : x >= y

\* the bandpass wb has a sample below every sample of ws, or one above every one
Beyond(wb, ws) ==
    \/ \E x \in Range(wb) : \A y \in Range(ws) : x < y
    \/ \E x \in Range(wb) : \A y \in Range(ws) : x > y

OverlapMessage == "Bandpass and spectrum must completely overlap."
Photometric == ret.op \in {"apmag", "extinction"}

\* C1: every _waverange call made by apmag or extinction on loaded arrays raises
\* the overlap error exactly when the bandpass reaches beyond the spectrum on
\* either side, and returns otherwise (equal ends included); the method ends
\* with the overlap error exactly when one of its calls did.
C1_OverlapExactlyWhenBeyond ==
    Photometric =>
        /\ \A i \in 1..Len(ret.calls) :
              LET cl == ret.calls[i]
              IN  (~IsNone(cl.wb) /\ ~IsNone(cl.ws)) =>
                     IF Beyond(Val(cl.wb), Val(cl.ws))
                     THEN /\ cl.res.out = "raise"
                          /\ cl.res.exc = "ValueError"
                          /\ cl.res.msg = OverlapMessage
                     ELSE cl.res.out = "return"
        /\ (ret.out = "raise" /\ ret.msg = OverlapMessage) <=>
              \E i \in 1..Len(ret.calls) :
                  /\ ~IsNone(ret.calls[i].wb) /\ ~IsNone(ret.calls[i].ws)
                  /\ Beyond(Val(ret.calls[i].wb), Val(ret.calls[i].ws))

\* apmag in the Vega system: the bandpass and spectrum domains have equal ends and
\* the first call returned; the bandpass reaches beyond Vega and the second raised
C1_Witness ==
    /\ ret.op = "apmag" /\ Len(ret.calls) = 2
    /\ Lowest(Val(ret.calls[1].wb)) = Lowest(Val(ret.calls[1].ws))
    /\ Highest(Val(ret.calls[1].wb)) = Highest(Val(ret.calls[1].ws))
    /\ ret.calls[1].res.out = "return"
    /\ ret.calls[2].res.out = "raise"
    /\ ret.msg = OverlapMessage

\* C2: when the overlap check passes, the selection integrated over is exactly
\* the spectrum indices i with wb_min <= ws[i] <= wb_max, in ascending index
\* order, with the spectrum's own wavelength and flux at those indices.
C2_GridIsInclusiveSubset ==
    (Photometric /\ ~IsNone(ret.sel)) =>
        LET sel == Val(ret.sel)
            ws == Val(star.wavelength)
            wb == Val(band.wavelength)
            inside == {i \in 1..Len(ws) : Lowest(wb) <= ws[i] /\ ws[i] <= Highest(wb)}
        IN  /\ Range(sel.r) = inside
            /\ Len(sel.r) = Cardinality(inside)
            /\ \A k \in 1..(Len(sel.r) - 1) : sel.r[k] < sel.r[k + 1]
            /\ Len(sel.wr) = Len(sel.r) /\ Len(sel.fr) = Len(sel.r)
            /\ \A k \in 1..Len(sel.r) :
                  /\ sel.wr[k] = ws[sel.r[k]]
                  /\ sel.fr[k] = Val(star.flux)[sel.r[k]]

\* a selection that keeps both ends of the bandpass range and leaves a sample out
C2_Witness ==
    /\ Photometric /\ ~IsNone(ret.sel) /\ ret.out = "return"
    /\ Len(Val(ret.sel).r) = 2 /\ Len(Val(star.wavelength)) = 3
    /\ Val(ret.sel).wr[1] = Lowest(Val(band.wavelength))
    /\ Val(ret.sel).wr[2] = Highest(Val(band.wavelength))
    /\ Val(ret.sel).fr[1] # Val(ret.sel).fr[2]

\* a spectrum whose wavelength and flux are loaded arrays of one length
WellFormed(s) ==
    /\ ~IsNone(s.wavelength) /\ ~IsNone(s.flux)
    /\ Len(Val(s.wavelength)) = Len(Val(s.flux))

\* C6: on a loaded spectrum and bandpass, apmag with a system other than AB, ST
\* and Vega, and extinction with a law that is no key of the registry, raise
\* ValueError and return nothing, whether or not the overlap check passes.
C6_UnknownNameRaisesValueError ==
    (WellFormed(star) /\ ~IsNone(band.wavelength)) =>
        /\ (ret.op = "apmag" /\ ret.args.mag \notin {"AB", "ST", "Vega"}) =>
              (ret.out = "raise" /\ ret.exc = "ValueError" /\ IsNone(ret.val))
        /\ (ret.op = "extinction" /\ ret.args.law \notin extlaws) =>
              (ret.out = "raise" /\ ret.exc = "ValueError" /\ IsNone(ret.val))

\* an unknown system refused after the overlap check passed
C6_Witness ==
    /\ WellFormed(star) /\ ret.op = "apmag" /\ ret.args.mag = "XYZ"
    /\ ~IsNone(ret.sel) /\ ret.out = "raise" /\ ret.exc = "ValueError"
    /\ ret.msg # OverlapMessage

\* the spectrum is the Vega reference, the bandpass is loaded with its
\* interpolant built and lies within Vega's domain, and the last call was
\* apmag in the Vega system
VegaOfVega ==
    /\ star.wavelength = Some(vegawavelength) /\ star.flux = Some(vegaflux)
    /\ ~IsNone(band.wavelength) /\ ~IsNone(band.interpolated_response)
    /\ ~Beyond(Val(band.wavelength), vegawavelength)
    /\ ret.op = "apmag" /\ ret.args.mag = "Vega"

\* the magnitude is exactly m: a finite value whose two logarithms cancel
Exactly(v, m) == v.class = "finite" /\ v.num = v.den /\ v.scale = <<1, 0>> /\ v.zero = m

\* C7 as stated: the Vega magnitude of Vega itself is exactly mzero for any
\* loaded bandpass within Vega's domain.
C7_VegaOfVegaIsZeroPoint ==
    VegaOfVega => (ret.out = "return" /\ Exactly(ret.val, ret.args.mzero))

\* C7 as amended: target and reference select the same grid and the two
\* integrals are equal; the magnitude is exactly mzero when that integral is
\* positive, and NaN when it is zero or negative.
C7_VegaOfVegaAmended ==
    VegaOfVega =>
        /\ ret.out = "return"
        /\ ret.calls[1].res = ret.calls[2].res
        /\ ret.val.num = ret.val.den /\ ret.val.zero = ret.args.mzero
        /\ RSign(ret.val.num) > 0 => Exactly(ret.val, ret.args.mzero)
        /\ RSign(ret.val.num) <= 0 => ret.val.class = "nan"

C7_Witness ==
    /\ VegaOfVega /\ ret.out = "return" /\ ret.args.mzero = 3
    /\ Exactly(ret.val, 3) /\ Len(Val(ret.sel).r) < Len(vegawavelength)

(* ------------------------ the BandPass lifecycle ---------------------- *)
ExternalBand == File(".", "band", "dat", Some(Data2(<<1, 3>>, <<1, 1>>)))
OneColumn == File(".", "flux", "txt", Some(Data1(<<1, 2>>)))
Missing == File(".", "nofile", "dat", None)

BandArgs == {NoBand, NameArg("V"), NameArg("G"), NameArg("nofilter"), PathArg(ExternalBand)}
InitKinds == SmoothKinds \cup {"spline"}
LoadFiles == {Library.listfilters["V"], Library.listfilters["G"], ExternalBand, OneColumn, Missing}
SetWaves == {w \in Waves : Len(w) = 2 /\ w[2] = w[1] + 1}

\* where __init__ finds its band argument
Found(lf, arg) ==
    IF ~arg.given THEN "none"
    ELSE IF arg.key \in DOMAIN lf THEN "library"
    ELSE IF file_exists(arg.file) THEN "file"
    ELSE "missing"

InitBand ==
    /\ InitLibrary
    /\ star = StarInit(None).obj
    /\ band = BandInit(Library.listfilters, NoBand, "slinear").obj
    /\ ret = NoCall

\* band = BandPass(arg, smt); a raise leaves the caller's band as it was
Construct ==
    \E arg \in BandArgs, smt \in InitKinds :
        LET res == BandInit(listfilters, arg, smt)
        IN  /\ band' = IF res.out = "return" THEN res.obj ELSE band
            /\ ret' = Ret("BandPass", [smt |-> smt, found |-> Found(listfilters, arg)],
                          [res EXCEPT !.obj = None], <<>>, None)
            /\ UNCHANGED star
            /\ LibraryUnchanged

LoadAscii ==
    \E f \in LoadFiles :
        LET res == BandLoadAscii(band, f)
        IN  /\ band' = res.obj
            /\ ret' = Ret("loadascii", [file |-> f.base], [res EXCEPT !.obj = None], <<>>, None)
            /\ UNCHANGED star
            /\ LibraryUnchanged

SetWavelengthCall ==
    \E w \in SetWaves :
        /\ band' = SetWavelength(band, w)
        /\ ret' = Ret("setwavelength", [w |-> w], Returned(None), <<>>, None)
        /\ UNCHANGED star
        /\ LibraryUnchanged

SetFluxCall ==
    /\ band' = SetFlux(band, <<1, 1>>)
    /\ ret' = Ret("setflux", [flux |-> <<1, 1>>], Returned(None), <<>>, None)
    /\ UNCHANGED star
    /\ LibraryUnchanged

Smooth ==
    \E kind \in InitKinds :
        LET res == BandSmooth(band, kind)
        IN  /\ band' = res.obj
            /\ ret' = Ret("smooth", [kind |-> kind], [res EXCEPT !.obj = None], <<>>, None)
            /\ UNCHANGED star
            /\ LibraryUnchanged

Call ==
    \E w \in 0..(MaxW + 1) :
        /\ ret' = Ret("call", [w |-> w], BandCall(band, w), <<>>, None)
        /\ UNCHANGED <<star, band>>
        /\ LibraryUnchanged

NextBand == Construct \/ LoadAscii \/ SetWavelengthCall \/ SetFluxCall \/ Smooth \/ Call

SpecBand == InitBand /\ [][NextBand]_vars

(* ------------------------ claims on the BandPass ---------------------- *)
\* C3 as stated: a bandpass whose curve is loaded and whose interpolant has been
\* built evaluates to exactly 0 at every wavelength strictly below the minimum
\* or strictly above the maximum of its wavelength array.
C3_ZeroOutsideRange ==
    ( /\ ret.op = "call"
      /\ ~IsNone(band.wavelength) /\ ~IsNone(band.response)
      /\ ~IsNone(band.interpolated_response)
      /\ \/ ret.args.w < Lowest(Val(band.wavelength))
         \/ ret.args.w > Highest(Val(band.wavelength)) )
    => (ret.out = "return" /\ ret.val = RInt(0))

\* C4 as stated: construction with a kind outside the six raises ValueError
\* whatever the band argument is.
C4_UnknownKindAlwaysRaises ==
    (ret.op = "BandPass" /\ ret.args.smt \notin SmoothKinds) =>
        (ret.out = "raise" /\ ret.exc = "ValueError")

\* C4 as amended: construction with a kind outside the six raises ValueError
\* 'Unknown type of smoothing' exactly when the band argument is a name of the
\* library or an existing two-column file; with no band, or one that is neither,
\* it returns (with a warning in the second case) and raises nothing.
C4_UnknownKindRaisesWhenBandFound ==
    (ret.op = "BandPass" /\ ret.args.smt \notin SmoothKinds) =>
        IF ret.args.found \in {"library", "file"}
        THEN ret.out = "raise" /\ ret.exc = "ValueError"
             /\ ret.msg = "Unknown type of smoothing"
        ELSE ret.out = "return"
             /\ (ret.args.found = "missing" <=> ret.msg = "Could not find filter or file")

C4_Witness ==
    /\ ret.op = "BandPass" /\ ret.args.smt = "spline" /\ ret.args.found = "file"
    /\ ret.out = "raise" /\ ret.msg = "Unknown type of smoothing"

\* C8 as stated: the interpolant evaluation uses is the one built from the
\* bandpass's current wavelength and response arrays.
C8_InterpolantIsCurrent ==
    ~IsNone(band.interpolated_response) =>
        /\ band.wavelength = Some(Val(band.interpolated_response).x)
        /\ band.response = Some(Val(band.interpolated_response).y)

(* --------------------------- the filter library ----------------------- *)
NewFilter == File(".", "test", "txt", Some(Data2(<<1, 2>>, <<1, 1>>)))
FilterFiles == {NewFilter, OneColumn, Missing}
FilterNames == {None, Some("V")}
FilterSystems == {None, Some("Bessel"), Some("Mine")}

InitLibrarySpec ==
    /\ InitLibrary
    /\ star = StarInit(None).obj
    /\ band = BandInit(Library.listfilters, NoBand, "slinear").obj
    /\ ret = NoCall

\* add_filter(file_path, name, system), the rescan walking in any order
AddFilter ==
    \E f \in FilterFiles, name \in FilterNames, system \in FilterSystems :
        LET nm == IF IsNone(name) THEN f.base ELSE Val(name)
            sys == IF IsNone(system) THEN "Unknown_system" ELSE Val(system)
            target == File(sys, nm, "dat", f.data)
            saved == /\ ~IsNone(f.data) /\ Val(f.data).cols = 2
                     /\ ~\E g \in fs : g.dir = sys /\ g.base = nm /\ g.ext = "dat"
        IN  \E order \in (IF saved THEN WalkOrders(fs \cup {target}) ELSE {<<>>}) :
                LET r == add_filter(fs, listfilters, showfilters, f, name, system, order)
                IN  /\ fs' = r.state.files
                    /\ listfilters' = r.state.listfilters
                    /\ showfilters' = r.state.showfilters
                    /\ ret' = Ret("add_filter", [file |-> f.base, name |-> nm, system |-> sys],
                                  [obj |-> None, out |-> r.out, exc |-> "", msg |-> r.msg],
                                  <<>>, None)
                    /\ UNCHANGED <<star, band>>

NextLibrary == AddFilter

SpecLibrary == InitLibrarySpec /\ [][NextLibrary]_vars

\* C9 as stated: add_filter with a name that is already a filter name of the
\* library, under any system, adds nothing: listfilters and showfilters stay as
\* they were; the set of files grows only for a name new to the library.
C9_KnownNameLeavesRegistry ==
    [][ (ret'.op = "add_filter" /\ ret'.args.name \in DOMAIN listfilters) =>
            (listfilters' = listfilters /\ showfilters' = showfilters /\ fs' = fs) ]_vars

(* --------------------------- the extinction law ----------------------- *)
\* longest array given to the law
MaxLawLen == 2

\* wavelengths in Angstrom: 1000 (X = 10), 1250 (X = 8), 5000 (X = 2), and
\* 100000 / k for X = k / 10
XTenths == {2, 3, 11, 33, 59}
LawWaves == {<<1000, 1>>, <<1250, 1>>, <<5000, 1>>} \cup {<<100000, k>> : k \in XTenths}
LawInputs == UNION {[1..n -> LawWaves] : n \in 1..MaxLawLen}

\* A = 0. (the default) and 1., Rv = 3.1 (the default)
LawAs == {0, Micro}
LawRvs == {3100000}

\* the calls of the law, each with its result
LawCalls ==
    {[wavelength |-> w, A |-> A, Rv |-> Rv, res |-> cardelli(w, A, Rv)] :
        w \in LawInputs, A \in LawAs, Rv \in LawRvs}

InitLaw == InitLibrarySpec

CardelliCall ==
    \E call \in LawCalls :
        /\ ret' = Ret("cardelli",
                      [wavelength |-> call.wavelength, A |-> call.A, Rv |-> call.Rv],
                      call.res, <<>>, None)
        /\ UNCHANGED <<star, band>>
        /\ LibraryUnchanged

NextLaw == CardelliCall

SpecLaw == InitLaw /\ [][NextLaw]_vars

\* X = 1e4 / wavelength compared with n / 10, on the wavelength <<p, q>> itself
XLess(w, tenths) == 100000 * w[2] < tenths * w[1]

\* the regions of the claim, each with the bound it starts at and the one it ends before
RegionFrom(r) ==
    CASE r = "infrared" -> 3 [] r = "optical" -> 11 [] r = "uv" -> 33 [] r = "far_uv" -> 80
RegionTo(r) ==
    CASE r = "infrared" -> 11 [] r = "optical" -> 33 [] r = "uv" -> 80 [] r = "far_uv" -> 100
Handling(w) == {r \in Regions : ~XLess(w, RegionFrom(r)) /\ XLess(w, RegionTo(r))}

\* C5: the law raises the domain error, and returns no array, exactly when some
\* wavelength has X < 0.3 or X >= 10; otherwise every X lies in exactly one of
\* [0.3,1.1), [1.1,3.3), [3.3,8), [8,10) and the value returned for it is the
\* one that region's formula gives.
C5_DomainAndRegions ==
    ret.op = "cardelli" =>
        LET w == ret.args.wavelength
        IN  IF \E i \in 1..Len(w) : XLess(w[i], 3) \/ ~XLess(w[i], 100)
            THEN ret.out = "raise" /\ ret.exc = "ValueError" /\ IsNone(ret.val)
            ELSE /\ ret.out = "return" /\ Len(ret.val) = Len(w)
                 /\ \A i \in 1..Len(w) :
                       /\ Cardinality(Handling(w[i])) = 1
                       /\ \A r \in Handling(w[i]) :
                             ret.val[i] = Extinction(Coefficients(r, XFix(w[i])),
                                                     ret.args.A, ret.args.Rv)

\* a returned array for the boundary values X = 0.3 and X = 1.1
C5_Witness ==
    /\ ret.op = "cardelli" /\ ret.out = "return" /\ ret.args.A = Micro
    /\ ret.args.wavelength = <<<<100000, 3>>, <<100000, 11>>>>

\* the formula of the region that ends at the boundary X = tenths / 10
Before(tenths, X) ==
    CASE tenths = 11 -> Infrared(X)
      [] tenths = 33 -> Optical(X)
      [] tenths = 59 -> UV(X, FALSE)
      [] tenths = 80 -> UV(X, TRUE)

\* C10 as stated: at X = 1.1, 3.3, 5.9 and 8.0 the value the law returns (the
\* formula of the region starting there) and the value of the formula of the
\* region ending there differ by at most 1e-6 (one unit of the fixed point).
C10_ContinuousAtBoundaries ==
    (ret.op = "cardelli" /\ ret.out = "return") =>
        \A i \in 1..Len(ret.val) : \A t \in {11, 33, 59, 80} :
            XOf(ret.args.wavelength[i]) = Rat(t, 10) =>
                Abs(ret.val[i] - Extinction(Before(t, XFix(ret.args.wavelength[i])),
                                            ret.args.A, ret.args.Rv)) <= 1

====
